---- MODULE Spec2Model ----
(***************************************************************************)
(* Udemy Superlearner: the content script (extension/content/              *)
(* playbackRate.js), the popup panel (extension/popup/popup.js), the       *)
(* chrome.storage.sync store they share and the host page's document.      *)
(*                                                                         *)
(* Numbers.  Every rate is an integer count of thousandths (1.0 = 1000).   *)
(* All configured values, presets and host rates are multiples of 0.05, so  *)
(* the last digit is free to carry the binary64 error of a sum: FAdd(a, b)  *)
(* is the decimal sum plus Drift(a, b), one thousandth standing for "a few  *)
(* ulps above / below the double nearest the decimal sum".  Round2 is       *)
(* Math.round(x * 100) / 100 on this grid and removes that error.          *)
(*                                                                         *)
(* Asynchrony.  chrome.storage.sync.set takes effect when it is issued;    *)
(* chrome.storage.sync.get snapshots the store when it is issued and its   *)
(* callback runs as a later step (requests of one context are served in    *)
(* order).  Toasts, the rate label and console logging are presentation    *)
(* only and carry no state here.                                           *)
(***************************************************************************)
EXTENDS Integers, Sequences, FiniteSets, TLC

\* ---------------------------------------------------------------- bounds
MaxElems == 2       \* video elements the page can have alive at once
MaxCmds == 2        \* user commands while the panel is open
MaxPending == 2     \* storage reads / messages / panel continuations in flight
MaxStreak == 10     \* successive fine increases that are counted

\* ------------------------------------------------------- program constants
DefaultMinRate == 500
DefaultMaxRate == 3000
DefaultFineIncrement == 50
DefaultCoarseIncrement == 250
DefaultRate == 1000
ElementDefaultRate == 1000

Null == 0
Absent == -1

Elems == 1..MaxElems
Keys == {"minRate", "maxRate", "fineIncrement", "coarseIncrement", "defaultRate"}

DEFAULT_CONFIG ==
    [minRate |-> DefaultMinRate, maxRate |-> DefaultMaxRate,
     fineIncrement |-> DefaultFineIncrement,
     coarseIncrement |-> DefaultCoarseIncrement,
     defaultRate |-> DefaultRate]

speedMap == <<500, 750, 1000, 1250, 1500, 1750, 2000, 2500, 3000>>

\* ------------------------------------------------------------ input sets
\* values entered in the panel's min / max speed fields
RateFieldValues == {500, 2000, 3000}
\* choices offered by the two increment fields: 5% or 10%, 25% or 50%
FineOptions == {50, 100}
CoarseOptions == {250, 500}
\* rates the host page's own controls set on the element
HostRates == {1000}
\* positions the slider thumb is dragged to, preset buttons of the panel
SliderPicks == {500, 1350, 3000}
PanelPresets == {1500, 3000}
\* digit keys pressed with Shift
DigitKeys == {1, 5, 9}
\* what the store holds when the behaviour starts
EmptyStoredConfig == [k \in Keys |-> Absent]
InitStoredConfigs ==
    {EmptyStoredConfig, [EmptyStoredConfig EXCEPT !["maxRate"] = 2000]}
InitStoredRates == {Absent, 1350}

\* ------------------------------------------------------------ arithmetic
\* operand pairs whose binary64 sum lies above the double nearest the
\* decimal sum (1.1 + 0.05 = 1.1500000000000001)
DriftHigh ==
    {<<50, 100>>, <<100, 50>>, <<200, -50>>, <<200, 100>>, <<400, -50>>,
     <<400, -100>>, <<400, -250>>, <<550, 50>>, <<550, -100>>,
     <<550, -250>>, <<550, -500>>, <<650, 50>>, <<650, -500>>,
     <<800, 50>>, <<800, -100>>, <<800, -500>>, <<900, 50>>,
     <<1050, 100>>, <<1050, -100>>, <<1100, 50>>, <<1100, 100>>,
     <<1100, -250>>, <<1100, -500>>, <<1300, 100>>, <<1350, 50>>,
     <<1350, 100>>, <<1350, -500>>, <<1550, 100>>, <<1600, 50>>,
     <<1600, 100>>, <<1800, 100>>, <<1850, 50>>, <<1850, 100>>,
     <<2100, -50>>, <<2200, -50>>, <<2200, 100>>, <<2200, -250>>,
     <<2200, -500>>, <<2350, -50>>, <<2450, -50>>, <<2450, 100>>,
     <<2450, -500>>, <<2600, -50>>, <<2700, -50>>, <<2700, 100>>,
     <<2850, -50>>, <<2950, -50>>, <<2950, 100>>, <<3100, -50>>,
     <<3200, -50>>, <<3200, 100>>, <<3350, -50>>, <<3450, -50>>,
     <<3450, 100>>, <<3600, -50>>, <<3700, -50>>, <<3700, 100>>,
     <<3850, -50>>, <<3950, -50>>}

\* operand pairs whose binary64 sum lies below it
\* (2.05 - 0.05 = 1.9999999999999998)
DriftLow ==
    {<<150, -50>>, <<150, -100>>, <<300, -100>>, <<300, -250>>,
     <<350, 50>>, <<350, 100>>, <<350, -100>>, <<350, -250>>,
     <<600, -50>>, <<600, -500>>, <<700, -50>>, <<700, 100>>,
     <<700, -250>>, <<700, -500>>, <<850, -50>>, <<950, -50>>,
     <<950, -500>>, <<1150, -50>>, <<1150, -100>>, <<1150, -250>>,
     <<1150, -500>>, <<1200, -100>>, <<1400, -50>>, <<1400, -100>>,
     <<1400, -500>>, <<1450, -100>>, <<1650, -50>>, <<1650, -100>>,
     <<1700, -100>>, <<1900, -50>>, <<1900, -100>>, <<1950, -100>>,
     <<2050, 50>>, <<2050, -50>>, <<2050, -100>>, <<2050, -250>>,
     <<2050, -500>>, <<2150, 50>>, <<2300, 50>>, <<2300, -100>>,
     <<2300, -500>>, <<2400, 50>>, <<2550, 50>>, <<2550, -100>>,
     <<2650, 50>>, <<2800, 50>>, <<2800, -100>>, <<2900, 50>>,
     <<3050, 50>>, <<3050, -100>>, <<3150, 50>>, <<3300, 50>>,
     <<3300, -100>>, <<3400, 50>>, <<3550, 50>>, <<3550, -100>>,
     <<3650, 50>>, <<3800, 50>>, <<3800, -100>>, <<3900, 50>>}

Drift(a, b) ==
    IF <<a, b>> \in DriftHigh THEN 1
    ELSE IF <<a, b>> \in DriftLow THEN -1
    ELSE 0

\* currentRate + increment, currentRate - increment (b is the signed step)
FAdd(a, b) == a + b + Drift(a, b)

\* the sum is kept as computed, without the rounding
Round2Skipped(x) == x

\* Math.round(x * 100) / 100: nearest hundredth, halves upwards
Round2(x) == ((x + 5) \div 10) * 10

Max2(a, b) == IF a >= b THEN a ELSE b
Min2(a, b) == IF a <= b THEN a ELSE b

\* the stored configuration is taken as it is, without the defaults under it
MergeConfigStoredOnly(stored) == stored

\* { ...DEFAULT_CONFIG, ...data.udemy_config }
MergeConfig(stored) ==
    [k \in Keys |-> IF stored[k] = Absent THEN DEFAULT_CONFIG[k] ELSE stored[k]]

\* the directional branch with the wrap option taken as always set
StepRateWrapping(cur, dir, inc, cfg, wrap) ==
    LET stepped == IF dir = "increase" THEN FAdd(cur, inc) ELSE FAdd(cur, 0 - inc)
        over == IF stepped > cfg.maxRate THEN cfg.minRate ELSE stepped
        under == IF over < cfg.minRate THEN cfg.maxRate ELSE over
    IN  Round2(under)

\* the directional branch of setPlaybackRate
StepRate(cur, dir, inc, cfg, wrap) ==
    LET stepped == IF dir = "increase" THEN FAdd(cur, inc) ELSE FAdd(cur, 0 - inc)
        over == IF stepped > cfg.maxRate
                THEN (IF wrap THEN cfg.minRate ELSE cfg.maxRate)
                ELSE stepped
        under == IF over < cfg.minRate
                 THEN (IF wrap THEN cfg.maxRate ELSE cfg.minRate)
                 ELSE over
    IN  Round2(under)

\* the clamp and rounding at the head of the panel's setRate
PanelRate(r, cfg) == Round2(Max2(cfg.minRate, Min2(cfg.maxRate, r)))

\* ----------------------------------------------------------------- state
VARIABLES
    doc,            \* the document's video elements, in document order
    attr,           \* per element: classes, container, attributes, activity
    rate,           \* per element: playbackRate
    attached,       \* per element: _superlearnerAttached
    listeners,      \* per element: how many times the listener set was added
    currentVideo,   \* state.currentVideo
    config,         \* state.config
    keyListenerAdded,
    initialized,
    initPc,         \* per initialize trigger: where that call stands
    observers,      \* MutationObservers installed
    timers,         \* polling intervals installed
    debounce,       \* observers whose _timeout is pending
    reads,          \* applyStoredRate calls awaiting getStoredRate
    cfgReads,       \* loadConfig calls awaiting the store
    stRate,         \* store: udemy_playback_rate
    stConfig,       \* store: udemy_config
    msgs,           \* messages sent to the tab's content script, not yet handled
    tabOnHost,      \* the active tab shows the host site
    popup,          \* the panel's script context
    last,           \* history: the most recent rate command and its outcome
    hostSet,        \* history, per element: the host page wrote playbackRate last
    budget          \* commands the user can still give while the panel is open

vars == <<doc, attr, rate, attached, listeners, currentVideo, config,
          keyListenerAdded, initialized, initPc, observers, timers, debounce,
          reads, cfgReads, stRate, stConfig, msgs, tabOnHost, popup, last,
          hostSet, budget>>

\* --------------------------------------------------------------- locator
\* document.querySelector: the first element in document order among those
\* that match (the set S)
FirstMatch(d, S) ==
    IF \E i \in 1..Len(d) : d[i] \in S
    THEN d[CHOOSE i \in 1..Len(d) :
               d[i] \in S /\ \A j \in 1..(i - 1) : d[j] \notin S]
    ELSE Null

Active(a) == a.ready \/ a.progressed \/ a.playing

\* the strategies tried in another order: activity before the markers
findVideoElementByActivity(d, at) ==
    LET s1 == FirstMatch(d, {e \in Elems : at[e].vjs})
        s2 == FirstMatch(d, {e \in Elems : at[e].inPlayer})
        s3 == FirstMatch(d, {e \in Elems : at[e].preload})
        s5 == FirstMatch(d, {e \in Elems : Active(at[e])})
    IN  IF Len(d) = 1 THEN d[1]
        ELSE IF s5 # Null THEN s5
        ELSE IF s1 # Null THEN s1
        ELSE IF s2 # Null THEN s2
        ELSE IF s3 # Null THEN s3
        ELSE IF Len(d) > 0 THEN d[1]
        ELSE Null

\* the last strategy without the look at activity: the first video
findVideoElementFirst(d, at) ==
    LET s1 == FirstMatch(d, {e \in Elems : at[e].vjs})
        s2 == FirstMatch(d, {e \in Elems : at[e].inPlayer})
        s3 == FirstMatch(d, {e \in Elems : at[e].preload})
    IN  IF s1 # Null THEN s1
        ELSE IF s2 # Null THEN s2
        ELSE IF s3 # Null THEN s3
        ELSE IF Len(d) > 0 THEN d[1]
        ELSE Null

findVideoElement(d, at) ==
    LET s1 == FirstMatch(d, {e \in Elems : at[e].vjs})
        s2 == FirstMatch(d, {e \in Elems : at[e].inPlayer})
        s3 == FirstMatch(d, {e \in Elems : at[e].preload})
        s5 == FirstMatch(d, {e \in Elems : Active(at[e])})
    IN  IF s1 # Null THEN s1
        ELSE IF s2 # Null THEN s2
        ELSE IF s3 # Null THEN s3
        ELSE IF Len(d) = 1 THEN d[1]
        ELSE IF s5 # Null THEN s5
        ELSE IF Len(d) > 0 THEN d[1]
        ELSE Null

\* ------------------------------------------------------- element helpers
InDoc(e) == \E i \in 1..Len(doc) : doc[i] = e

Remove(d, e) == SelectSeq(d, LAMBDA x : x # e)

NoAttr == [vjs |-> FALSE, inPlayer |-> FALSE, preload |-> FALSE,
           ready |-> FALSE, progressed |-> FALSE, playing |-> FALSE]

\* the elements the host page creates: its Video.js player, and a bare video
Player == [NoAttr EXCEPT !.vjs = TRUE, !.inPlayer = TRUE, !.preload = TRUE]

PageKinds == {Player, NoAttr}

AllAttrs == [vjs : BOOLEAN, inPlayer : BOOLEAN, preload : BOOLEAN,
             ready : BOOLEAN, progressed : BOOLEAN, playing : BOOLEAN]

\* the store is not consulted
StoredRateIgnored(cfg) == cfg.defaultRate

\* getStoredRate: the stored rate, state.config.defaultRate when there is none
StoredRateOr(cfg) == IF stRate = Absent THEN cfg.defaultRate ELSE stRate

\* attachVideoListeners(video), as the new values of the three things it writes
AttachedAfter(v) == [attached EXCEPT ![v] = TRUE]

\* the listener set is added without looking at _superlearnerAttached
ListenersAdded(v) == [listeners EXCEPT ![v] = @ + 1]

ListenersAfter(v) ==
    IF attached[v] THEN listeners ELSE [listeners EXCEPT ![v] = @ + 1]

ReadsAfter(v, cfg) ==
    IF ~attached[v] /\ attr[v].ready
    THEN reads \cup {[video |-> v, val |-> StoredRateOr(cfg)]}
    ELSE reads

\* elements nothing refers to any more are garbage: Live is what the document,
\* state.currentVideo (cv) and the pending applyStoredRate closures (rd) still
\* reach, and Collect gives every other element the state of a new one
Live(d, cv, rd) ==
    {e \in Elems : (\E i \in 1..Len(d) : d[i] = e) \/ e = cv
                    \/ (\E r \in rd : r.video = e)}

Collect(f, fresh, d, cv, rd) ==
    [e \in Elems |-> IF e \in Live(d, cv, rd) THEN f[e] ELSE fresh]

NoCmd == [src |-> "none", op |-> "none", wrap |-> FALSE, cur |-> 0, req |-> 0,
          inc |-> 0, min |-> 0, max |-> 0, res |-> Absent, video |-> Null,
          streak |-> 0]

\* the history is kept only in the specifications whose Init switches it on
NoHistory == [NoCmd EXCEPT !.src = "off"]

Note(cmd) == IF last.src = "off" THEN last ELSE cmd

\* ------------------------------------------------------------------ Init
ClosedPopup == [phase |-> "closed", cfg |-> DEFAULT_CONFIG, rate |-> DefaultRate,
                snap |-> [cfg |-> EmptyStoredConfig, rate |-> Absent],
                pend |-> <<>>]

Triggers == {"ready", "t1s", "t3s"}

PageStart ==
    /\ doc = <<>>
    /\ attr = [e \in Elems |-> NoAttr]
    /\ rate = [e \in Elems |-> ElementDefaultRate]
    /\ hostSet = [e \in Elems |-> FALSE]
    /\ attached = [e \in Elems |-> FALSE]
    /\ listeners = [e \in Elems |-> 0]
    /\ currentVideo = Null
    /\ config = DEFAULT_CONFIG
    /\ keyListenerAdded = FALSE
    /\ initialized = FALSE
    /\ initPc = [t \in Triggers |-> "idle"]
    /\ observers = 0
    /\ timers = 0
    /\ debounce = {}
    /\ reads = {}
    /\ cfgReads = {}

Init ==
    /\ PageStart
    /\ stRate \in InitStoredRates
    /\ stConfig \in InitStoredConfigs
    /\ msgs = <<>>
    /\ tabOnHost = TRUE
    /\ popup = ClosedPopup
    /\ last = NoCmd
    /\ budget = MaxCmds

\* ------------------------------------------------- content script: start-up
\* initialize(), up to its await: one call per trigger of the start section
InitializeCall(t) ==
    /\ initPc[t] = "idle"
    /\ t = "t3s" => initPc["t1s"] # "idle"
    /\ IF initialized
       THEN /\ initPc' = [initPc EXCEPT ![t] = "done"]
            /\ UNCHANGED cfgReads
       ELSE /\ initPc' = [initPc EXCEPT ![t] = "loading"]
            /\ cfgReads' = cfgReads \cup {[who |-> t, val |-> stConfig]}
    /\ UNCHANGED <<doc, attr, rate, hostSet, attached, listeners, currentVideo,
                   config, keyListenerAdded, initialized, observers, timers,
                   debounce, reads, stRate, stConfig, msgs, tabOnHost, popup,
                   last, budget>>

\* initialize(), from the completion of loadConfig to its end
InitializeResume(t) ==
    /\ initPc[t] = "loading"
    /\ \E r \in cfgReads :
        /\ r.who = t
        /\ LET cfg == MergeConfig(r.val)
               video == findVideoElement(doc, attr)
           IN  /\ config' = cfg
               /\ keyListenerAdded' = TRUE
               /\ IF video # Null
                  THEN /\ currentVideo' = video
                       /\ reads' = ReadsAfter(video, cfg)
                       /\ attached' = Collect(AttachedAfter(video), FALSE,
                                              doc, video, reads')
                       /\ listeners' = Collect(ListenersAfter(video), 0,
                                               doc, video, reads')
                       /\ attr' = Collect(attr, NoAttr, doc, video, reads')
                       /\ rate' = Collect(rate, ElementDefaultRate,
                                          doc, video, reads')
                       /\ hostSet' = Collect(hostSet, FALSE, doc, video, reads')
                  ELSE UNCHANGED <<currentVideo, attached, listeners, reads,
                                   attr, rate, hostSet>>
               /\ cfgReads' = cfgReads \ {r}
    /\ observers' = observers + 1
    /\ timers' = timers + 1
    /\ initialized' = TRUE
    /\ initPc' = [initPc EXCEPT ![t] = "done"]
    /\ UNCHANGED <<doc, debounce, stRate, stConfig, msgs, tabOnHost, popup,
                   last, budget>>

\* ------------------------------------------- content script: reconcile passes
\* the body shared by the debounced observer callback and the interval callback
Reconcile ==
    LET video == findVideoElement(doc, attr)
    IN  IF video # Null /\ video # currentVideo
        THEN /\ currentVideo' = video
             /\ reads' = ReadsAfter(video, config)
             /\ attached' = Collect(AttachedAfter(video), FALSE, doc, video, reads')
             /\ listeners' = Collect(ListenersAfter(video), 0, doc, video, reads')
             /\ attr' = Collect(attr, NoAttr, doc, video, reads')
             /\ rate' = Collect(rate, ElementDefaultRate, doc, video, reads')
             /\ hostSet' = Collect(hostSet, FALSE, doc, video, reads')
        ELSE UNCHANGED <<currentVideo, attached, listeners, reads, attr, rate,
                         hostSet>>

\* the MutationObserver callback, for a mutation of the page that involves no
\* video element: arms the 100 ms timeout unless one is pending
MutationNotify(o) ==
    /\ o \in 1..observers
    /\ debounce' = debounce \cup {o}
    /\ UNCHANGED <<doc, attr, rate, hostSet, attached, listeners, currentVideo,
                   config, keyListenerAdded, initialized, initPc, observers,
                   timers, reads, cfgReads, stRate, stConfig, msgs, tabOnHost,
                   popup, last, budget>>

\* the timeout armed by the observer callback
DebounceFire(o) ==
    /\ o \in debounce
    /\ debounce' = debounce \ {o}
    /\ Reconcile
    /\ UNCHANGED <<doc, config, keyListenerAdded, initialized, initPc,
                   observers, timers, cfgReads, stRate, stConfig, msgs,
                   tabOnHost, popup, last, budget>>

\* the 2 s interval callback
PollTick ==
    /\ timers > 0
    /\ Reconcile
    /\ UNCHANGED <<doc, config, keyListenerAdded, initialized, initPc,
                   observers, timers, debounce, cfgReads, stRate, stConfig,
                   msgs, tabOnHost, popup, last, budget>>

\* ------------------------------------------------ content script: readiness
ReadyTypes == {"loadedmetadata", "loadeddata", "canplay"}
PlayTypes == {"play", "playing"}

\* the element fires a readiness event; each registered applyStoredRate
\* starts with getStoredRate()
ReadinessEvent(e, type) ==
    /\ InDoc(e)
    /\ Cardinality(reads) < MaxPending
    /\ attr' = [attr EXCEPT ![e] =
                   IF type \in ReadyTypes THEN [@ EXCEPT !.ready = TRUE]
                   ELSE IF type = "play" THEN [@ EXCEPT !.playing = TRUE]
                   ELSE [@ EXCEPT !.ready = TRUE, !.playing = TRUE]]
    /\ reads' = IF listeners[e] > 0
                THEN reads \cup {[video |-> e, val |-> StoredRateOr(config)]}
                ELSE reads
    /\ UNCHANGED <<doc, rate, hostSet, attached, listeners, currentVideo,
                   config, keyListenerAdded, initialized, initPc, observers,
                   timers, debounce, cfgReads, stRate, stConfig, msgs,
                   tabOnHost, popup, last, budget>>

\* applyStoredRate, after its await
ApplyStoredRate(r) ==
    /\ r \in reads
    /\ reads' = reads \ {r}
    /\ rate' = Collect(IF rate[r.video] # r.val
                       THEN [rate EXCEPT ![r.video] = r.val]
                       ELSE rate,
                       ElementDefaultRate, doc, currentVideo, reads')
    /\ hostSet' = Collect([hostSet EXCEPT ![r.video] = FALSE],
                         FALSE, doc, currentVideo, reads')
    /\ attr' = Collect(attr, NoAttr, doc, currentVideo, reads')
    /\ attached' = Collect(attached, FALSE, doc, currentVideo, reads')
    /\ listeners' = Collect(listeners, 0, doc, currentVideo, reads')
    /\ UNCHANGED <<doc, currentVideo, config, keyListenerAdded, initialized,
                   initPc, observers, timers, debounce, cfgReads, stRate,
                   stConfig, msgs, tabOnHost, popup, last, budget>>

\* the ratechange listener saves the rate the host page has set
HostRateChangeSaved(e, r) ==
    /\ InDoc(e)
    /\ rate[e] # r
    /\ rate' = [rate EXCEPT ![e] = r]
    /\ hostSet' = [hostSet EXCEPT ![e] = TRUE]
    /\ stRate' = IF listeners[e] > 0 THEN r ELSE stRate
    /\ UNCHANGED <<doc, attr, attached, listeners, currentVideo, config,
                   keyListenerAdded, initialized, initPc, observers, timers,
                   debounce, reads, cfgReads, stConfig, msgs, tabOnHost,
                   popup, last, budget>>

\* the host page's own controls change the rate; the ratechange listener of
\* attachVideoListeners saves nothing
HostRateChange(e, r) ==
    /\ InDoc(e)
    /\ rate[e] # r
    /\ rate' = [rate EXCEPT ![e] = r]
    /\ hostSet' = [hostSet EXCEPT ![e] = TRUE]
    /\ UNCHANGED <<doc, attr, attached, listeners, currentVideo, config,
                   keyListenerAdded, initialized, initPc, observers, timers,
                   debounce, reads, cfgReads, stRate, stConfig, msgs,
                   tabOnHost, popup, last, budget>>

\* ------------------------------------------- content script: rate commands
\* history: successive fine increases under the default configuration,
\* counted from the default rate
Streak(src, op, coarse, cur) ==
    IF src = "key" /\ op = "increase" /\ ~coarse /\ config = DEFAULT_CONFIG
    THEN IF cur = DefaultRate THEN 1
         ELSE IF last.streak \in 1..(MaxStreak - 1) /\ last.src = "key"
                 /\ cur = last.res
              THEN last.streak + 1
              ELSE 0
    ELSE 0

\* the rate is saved before the look for a video
setPlaybackRateSavingFirst(src, op, req, coarse, wrap) ==
    LET video == IF currentVideo # Null THEN currentVideo
                 ELSE findVideoElement(doc, attr)
        inc == IF coarse THEN config.coarseIncrement ELSE config.fineIncrement
        cmd == [NoCmd EXCEPT !.src = src, !.op = op, !.wrap = wrap,
                             !.req = req, !.min = config.minRate,
                             !.max = config.maxRate]
    IN  IF video = Null
        THEN /\ last' = Note(cmd)
             /\ stRate' = IF op = "explicit" THEN req ELSE config.defaultRate
             /\ UNCHANGED <<currentVideo, rate, hostSet>>
        ELSE LET cur == rate[video]
                 r == IF op = "explicit" THEN req
                      ELSE StepRate(cur, op, inc, config, wrap)
             IN  /\ currentVideo' = video
                 /\ rate' = [rate EXCEPT ![video] = r]
                 /\ hostSet' = [hostSet EXCEPT ![video] = FALSE]
                 /\ stRate' = r
                 /\ last' = Note([cmd EXCEPT
                                      !.cur = cur,
                                      !.inc = IF op = "explicit" THEN 0 ELSE inc,
                                      !.res = r, !.video = video,
                                      !.streak = Streak(src, op, coarse, cur)])

\* setPlaybackRate(rate, options): rate is 'increase', 'decrease' or a number
setPlaybackRate(src, op, req, coarse, wrap) ==
    LET video == IF currentVideo # Null THEN currentVideo
                 ELSE findVideoElement(doc, attr)
        inc == IF coarse THEN config.coarseIncrement ELSE config.fineIncrement
        cmd == [NoCmd EXCEPT !.src = src, !.op = op, !.wrap = wrap,
                             !.req = req, !.min = config.minRate,
                             !.max = config.maxRate]
    IN  IF video = Null
        THEN /\ last' = Note(cmd)
             /\ UNCHANGED <<currentVideo, rate, hostSet, stRate>>
        ELSE LET cur == rate[video]
                 r == IF op = "explicit" THEN req
                      ELSE StepRate(cur, op, inc, config, wrap)
             IN  /\ currentVideo' = video
                 /\ rate' = [rate EXCEPT ![video] = r]
                 /\ hostSet' = [hostSet EXCEPT ![video] = FALSE]
                 /\ stRate' = r
                 /\ last' = Note([cmd EXCEPT
                                      !.cur = cur,
                                      !.inc = IF op = "explicit" THEN 0 ELSE inc,
                                      !.res = r, !.video = video,
                                      !.streak = Streak(src, op, coarse, cur)])

\* a page command is counted against the budget while the panel is open
Spend ==
    IF popup.phase = "closed" THEN budget' = budget
    ELSE budget > 0 /\ budget' = budget - 1

\* keydown: Shift + ArrowRight / ArrowLeft
KeyFine(dir) ==
    /\ keyListenerAdded
    /\ Spend
    /\ setPlaybackRate("key", dir, 0, FALSE, TRUE)
    /\ UNCHANGED <<doc, attr, attached, listeners, config, keyListenerAdded,
                   initialized, initPc, observers, timers, debounce, reads,
                   cfgReads, stConfig, msgs, tabOnHost, popup>>

\* keydown: Ctrl + Shift + ArrowRight / ArrowLeft
KeyCoarse(dir) ==
    /\ keyListenerAdded
    /\ Spend
    /\ setPlaybackRate("key", dir, 0, TRUE, FALSE)
    /\ UNCHANGED <<doc, attr, attached, listeners, config, keyListenerAdded,
                   initialized, initPc, observers, timers, debounce, reads,
                   cfgReads, stConfig, msgs, tabOnHost, popup>>

\* keydown: Shift + Digit1..Digit9
KeyPreset(num) ==
    /\ keyListenerAdded
    /\ Spend
    /\ setPlaybackRate("key", "explicit", speedMap[num], FALSE, FALSE)
    /\ UNCHANGED <<doc, attr, attached, listeners, config, keyListenerAdded,
                   initialized, initPc, observers, timers, debounce, reads,
                   cfgReads, stConfig, msgs, tabOnHost, popup>>

\* chrome.runtime.onMessage: SET_RATE.  sendResponse({ success: true }) follows
\* the call of setPlaybackRate whatever that call did, so this step is also the
\* acknowledgement
OnSetRate ==
    /\ msgs # <<>>
    /\ Head(msgs).type = "SET_RATE"
    /\ msgs' = Tail(msgs)
    /\ setPlaybackRate("msg", "explicit", Head(msgs).rate, FALSE, FALSE)
    /\ UNCHANGED <<doc, attr, attached, listeners, config, keyListenerAdded,
                   initialized, initPc, observers, timers, debounce, reads,
                   cfgReads, stConfig, tabOnHost, popup, budget>>

\* chrome.runtime.onMessage: CONFIG_UPDATED, up to the await inside loadConfig
OnConfigUpdated ==
    /\ msgs # <<>>
    /\ Head(msgs).type = "CONFIG_UPDATED"
    /\ msgs' = Tail(msgs)
    /\ cfgReads' = cfgReads \cup {[who |-> "msg", val |-> stConfig]}
    /\ UNCHANGED <<doc, attr, rate, hostSet, attached, listeners, currentVideo,
                   config, keyListenerAdded, initialized, initPc, observers,
                   timers, debounce, reads, stRate, stConfig, tabOnHost,
                   popup, last, budget>>

\* the storage callback of that loadConfig
LoadConfigDone ==
    \E r \in cfgReads :
        /\ r.who = "msg"
        /\ cfgReads' = cfgReads \ {r}
        /\ config' = MergeConfig(r.val)
        /\ UNCHANGED <<doc, attr, rate, hostSet, attached, listeners,
                       currentVideo, keyListenerAdded, initialized, initPc,
                       observers, timers, debounce, reads, stRate, stConfig,
                       msgs, tabOnHost, popup, last, budget>>

\* -------------------------------------------------------------- the panel
PopupDefaultRate == 1000

\* init(), up to the await inside loadConfig
PopupOpen ==
    /\ popup.phase = "closed"
    /\ popup' = [popup EXCEPT !.phase = "loading",
                              !.snap = [cfg |-> stConfig, rate |-> stRate]]
    /\ UNCHANGED <<doc, attr, rate, hostSet, attached, listeners, currentVideo,
                   config, keyListenerAdded, initialized, initPc, observers,
                   timers, debounce, reads, cfgReads, stRate, stConfig, msgs,
                   tabOnHost, last, budget>>

\* the storage callback of the panel's loadConfig and the rest of init()
PopupLoaded ==
    /\ popup.phase = "loading"
    /\ popup' = [popup EXCEPT
                    !.phase = "open",
                    !.cfg = MergeConfig(popup.snap.cfg),
                    !.rate = IF popup.snap.rate = Absent THEN PopupDefaultRate
                             ELSE popup.snap.rate]
    /\ UNCHANGED <<doc, attr, rate, hostSet, attached, listeners, currentVideo,
                   config, keyListenerAdded, initialized, initPc, observers,
                   timers, debounce, reads, cfgReads, stRate, stConfig, msgs,
                   tabOnHost, last, budget>>

\* the panel is dismissed: its script context and what it awaited are gone
PopupClose ==
    /\ popup.phase # "closed"
    /\ popup' = ClosedPopup
    /\ UNCHANGED <<doc, attr, rate, hostSet, attached, listeners, currentVideo,
                   config, keyListenerAdded, initialized, initPc, observers,
                   timers, debounce, reads, cfgReads, stRate, stConfig, msgs,
                   tabOnHost, last, budget>>

\* setRate(rate), up to its first await
setRate(src, r) ==
    LET clamped == PanelRate(r, popup.cfg)
    IN  /\ popup.phase = "open"
        /\ Len(popup.pend) < MaxPending
        /\ budget > 0
        /\ budget' = budget - 1
        /\ stRate' = clamped
        /\ popup' = [popup EXCEPT !.pend =
                        Append(@, [pc |-> "set", kind |-> "rate", rate |-> clamped])]
        /\ last' = Note([NoCmd EXCEPT !.src = src, !.op = "explicit", !.req = r,
                                      !.cur = popup.rate,
                                      !.min = popup.cfg.minRate,
                                      !.max = popup.cfg.maxRate,
                                      !.res = clamped])
        /\ UNCHANGED <<doc, attr, rate, hostSet, attached, listeners,
                       currentVideo, config, keyListenerAdded, initialized,
                       initPc, observers, timers, debounce, reads, cfgReads,
                       stConfig, msgs, tabOnHost>>

Signed(dir, inc) == IF dir = "increase" THEN inc ELSE 0 - inc

\* click on decreaseBtn / increaseBtn
PanelStepper(dir) ==
    setRate("stepper", FAdd(popup.rate, Signed(dir, popup.cfg.fineIncrement)))

\* keydown in the panel: ArrowRight / ArrowLeft, with Ctrl for the coarse step
PanelArrowKey(dir, ctrl) ==
    setRate("panelkey",
            FAdd(popup.rate,
                 Signed(dir, IF ctrl THEN popup.cfg.coarseIncrement
                             ELSE popup.cfg.fineIncrement)))

\* the values a range input with these min, max and step can take
SliderValues(cfg) ==
    IF cfg.maxRate < cfg.minRate THEN {cfg.minRate}
    ELSE {v \in SliderPicks :
            /\ cfg.minRate <= v /\ v <= cfg.maxRate
            /\ (v - cfg.minRate) % cfg.fineIncrement = 0}

\* slider 'input': live preview, nothing is persisted
PanelSliderInput(v) ==
    /\ popup.phase = "open"
    /\ v \in SliderValues(popup.cfg)
    /\ popup.rate # v
    /\ popup' = [popup EXCEPT !.rate = v]
    /\ UNCHANGED <<doc, attr, rate, hostSet, attached, listeners, currentVideo,
                   config, keyListenerAdded, initialized, initPc, observers,
                   timers, debounce, reads, cfgReads, stRate, stConfig, msgs,
                   tabOnHost, last, budget>>

\* slider 'change': the thumb is released
PanelSliderChange(v) ==
    /\ v \in SliderValues(popup.cfg)
    /\ setRate("slider", v)

\* click on a preset button
PanelPreset(v) == setRate("preset", v)

\* 'change' on one of the four settings fields, and saveConfig up to its await
FieldOptions(field) ==
    IF field = "fineIncrement" THEN FineOptions
    ELSE IF field = "coarseIncrement" THEN CoarseOptions
    ELSE RateFieldValues

PanelSetting(field, v) ==
    /\ popup.phase = "open"
    /\ v \in FieldOptions(field)
    /\ Len(popup.pend) < MaxPending
    /\ budget > 0
    /\ budget' = budget - 1
    /\ popup.cfg[field] # v
    /\ LET cfg == [popup.cfg EXCEPT ![field] = v]
       IN  /\ stConfig' = cfg
           /\ popup' = [popup EXCEPT
                           !.cfg = cfg,
                           !.pend = Append(@, [pc |-> "set", kind |-> "config",
                                               rate |-> 0])]
    /\ UNCHANGED <<doc, attr, rate, hostSet, attached, listeners, currentVideo,
                   config, keyListenerAdded, initialized, initPc, observers,
                   timers, debounce, reads, cfgReads, stRate, msgs, tabOnHost,
                   last>>

FirstAt(pend, pc) ==
    CHOOSE i \in 1..Len(pend) :
        pend[i].pc = pc /\ \A j \in 1..(i - 1) : pend[j].pc # pc

\* setRate / saveConfig resume after chrome.storage.sync.set and start the
\* tab query
PanelAfterSet ==
    /\ \E i \in 1..Len(popup.pend) : popup.pend[i].pc = "set"
    /\ LET i == FirstAt(popup.pend, "set")
           c == popup.pend[i]
       IN  popup' = [popup EXCEPT
                        !.rate = IF c.kind = "rate" THEN c.rate ELSE @,
                        !.pend = [@ EXCEPT ![i] = [c EXCEPT !.pc = "query"]]]
    /\ UNCHANGED <<doc, attr, rate, hostSet, attached, listeners, currentVideo,
                   config, keyListenerAdded, initialized, initPc, observers,
                   timers, debounce, reads, cfgReads, stRate, stConfig, msgs,
                   tabOnHost, last, budget>>

DropAt(q, i) == [j \in 1..(Len(q) - 1) |-> IF j < i THEN q[j] ELSE q[j + 1]]

\* the message is sent without the look at the tab's url
PanelAfterQueryAnyTab ==
    /\ \E i \in 1..Len(popup.pend) : popup.pend[i].pc = "query"
    /\ Len(msgs) < MaxPending
    /\ LET i == FirstAt(popup.pend, "query")
           c == popup.pend[i]
       IN  /\ popup' = [popup EXCEPT !.pend = DropAt(@, i)]
           /\ msgs' = Append(msgs,
                             [type |-> IF c.kind = "rate" THEN "SET_RATE"
                                       ELSE "CONFIG_UPDATED",
                              rate |-> c.rate])
    /\ UNCHANGED <<doc, attr, rate, hostSet, attached, listeners, currentVideo,
                   config, keyListenerAdded, initialized, initPc, observers,
                   timers, debounce, reads, cfgReads, stRate, stConfig,
                   tabOnHost, last, budget>>

\* setRate / saveConfig resume after chrome.tabs.query and message the tab
PanelAfterQuery ==
    /\ \E i \in 1..Len(popup.pend) : popup.pend[i].pc = "query"
    /\ Len(msgs) < MaxPending
    /\ LET i == FirstAt(popup.pend, "query")
           c == popup.pend[i]
       IN  /\ popup' = [popup EXCEPT !.pend = DropAt(@, i)]
           /\ msgs' = IF tabOnHost
                      THEN Append(msgs,
                                  [type |-> IF c.kind = "rate" THEN "SET_RATE"
                                            ELSE "CONFIG_UPDATED",
                                   rate |-> c.rate])
                      ELSE msgs
    /\ UNCHANGED <<doc, attr, rate, hostSet, attached, listeners, currentVideo,
                   config, keyListenerAdded, initialized, initPc, observers,
                   timers, debounce, reads, cfgReads, stRate, stConfig,
                   tabOnHost, last, budget>>

\* the user activates another tab, or comes back to the host site's tab
TabSwitch ==
    /\ tabOnHost' = ~tabOnHost
    /\ UNCHANGED <<doc, attr, rate, hostSet, attached, listeners, currentVideo,
                   config, keyListenerAdded, initialized, initPc, observers,
                   timers, debounce, reads, cfgReads, stRate, stConfig, msgs,
                   popup, last, budget>>

\* ----------------------------------------------------------- the host page
Free(e) ==
    /\ ~InDoc(e)
    /\ currentVideo # e
    /\ \A r \in reads : r.video # e

\* the page creates a video element and appends it to the document; the new
\* element takes the lowest identity that is not in use.  The mutation is
\* reported to every MutationObserver, whose callback arms its timeout
PageInsertVideo(e, kind) ==
    /\ Free(e)
    /\ \A f \in Elems : Free(f) => e <= f
    /\ doc' = Append(doc, e)
    /\ attr' = [attr EXCEPT ![e] = kind]
    /\ rate' = [rate EXCEPT ![e] = ElementDefaultRate]
    /\ hostSet' = [hostSet EXCEPT ![e] = FALSE]
    /\ attached' = [attached EXCEPT ![e] = FALSE]
    /\ listeners' = [listeners EXCEPT ![e] = 0]
    /\ debounce' = 1..observers
    /\ UNCHANGED <<currentVideo, config, keyListenerAdded, initialized,
                   initPc, observers, timers, reads, cfgReads, stRate,
                   stConfig, msgs, tabOnHost, popup, last, budget>>

\* the page moves a video element of the document to the end of it
\* (appendChild of a node that is already in the document)
PageMoveVideo(e) ==
    /\ InDoc(e)
    /\ doc[Len(doc)] # e
    /\ doc' = Append(Remove(doc, e), e)
    /\ debounce' = 1..observers
    /\ UNCHANGED <<attr, rate, hostSet, attached, listeners, currentVideo,
                   config, keyListenerAdded, initialized, initPc, observers,
                   timers, reads, cfgReads, stRate, stConfig, msgs, tabOnHost,
                   popup, last, budget>>

\* the page takes a video element out of the document
PageRemoveVideo(e) ==
    /\ InDoc(e)
    /\ doc' = Remove(doc, e)
    /\ attr' = Collect(attr, NoAttr, doc', currentVideo, reads)
    /\ rate' = Collect(rate, ElementDefaultRate, doc', currentVideo, reads)
    /\ hostSet' = Collect(hostSet, FALSE, doc', currentVideo, reads)
    /\ attached' = Collect(attached, FALSE, doc', currentVideo, reads)
    /\ listeners' = Collect(listeners, 0, doc', currentVideo, reads)
    /\ debounce' = 1..observers
    /\ UNCHANGED <<currentVideo, config, keyListenerAdded, initialized,
                   initPc, observers, timers, reads, cfgReads, stRate,
                   stConfig, msgs, tabOnHost, popup, last, budget>>

\* the tab reloads: a fresh document and a fresh content-script context
PageReload ==
    /\ \E t \in Triggers : initPc[t] # "idle"
    /\ doc' = <<>>
    /\ attr' = [e \in Elems |-> NoAttr]
    /\ rate' = [e \in Elems |-> ElementDefaultRate]
    /\ hostSet' = [e \in Elems |-> FALSE]
    /\ attached' = [e \in Elems |-> FALSE]
    /\ listeners' = [e \in Elems |-> 0]
    /\ currentVideo' = Null
    /\ config' = DEFAULT_CONFIG
    /\ keyListenerAdded' = FALSE
    /\ initialized' = FALSE
    /\ initPc' = [t \in Triggers |-> "idle"]
    /\ observers' = 0
    /\ timers' = 0
    /\ debounce' = {}
    /\ reads' = {}
    /\ cfgReads' = {}
    /\ msgs' = <<>>
    /\ UNCHANGED <<stRate, stConfig, tabOnHost, popup, last, budget>>

\* --------------------------------------------------------- the whole system
Dirs == {"increase", "decrease"}
AllReadyTypes == ReadyTypes \cup PlayTypes
SettingFields == {"minRate", "maxRate", "fineIncrement", "coarseIncrement"}

Next ==
    \/ \E t \in Triggers : InitializeCall(t)
    \/ \E t \in Triggers : InitializeResume(t)
    \/ \E o \in 1..observers : MutationNotify(o)
    \/ \E o \in debounce : DebounceFire(o)
    \/ PollTick
    \/ \E e \in Elems, type \in AllReadyTypes : ReadinessEvent(e, type)
    \/ \E r \in reads : ApplyStoredRate(r)
    \/ \E e \in Elems, r \in HostRates : HostRateChange(e, r)
    \/ \E dir \in Dirs : KeyFine(dir)
    \/ \E dir \in Dirs : KeyCoarse(dir)
    \/ \E num \in DigitKeys : KeyPreset(num)
    \/ OnSetRate
    \/ OnConfigUpdated
    \/ LoadConfigDone
    \/ PopupOpen
    \/ PopupLoaded
    \/ PopupClose
    \/ \E dir \in Dirs : PanelStepper(dir)
    \/ \E dir \in Dirs, ctrl \in BOOLEAN : PanelArrowKey(dir, ctrl)
    \/ \E v \in SliderPicks : PanelSliderInput(v)
    \/ \E v \in SliderPicks : PanelSliderChange(v)
    \/ \E v \in PanelPresets : PanelPreset(v)
    \/ \E field \in SettingFields, v \in RateFieldValues \cup FineOptions
                                          \cup CoarseOptions :
          PanelSetting(field, v)
    \/ PanelAfterSet
    \/ PanelAfterQuery
    \/ TabSwitch
    \/ \E e \in Elems, kind \in PageKinds : PageInsertVideo(e, kind)
    \/ \E e \in Elems : PageMoveVideo(e)
    \/ \E e \in Elems : PageRemoveVideo(e)
    \/ PageReload

Spec == Init /\ [][Next]_vars

\* ------------------------------------------- a lesson page in steady state
\* the configurations the settings fields can produce that keep
\* minRate < maxRate
FieldConfigs ==
    {cfg \in {[minRate |-> lo, maxRate |-> hi, fineIncrement |-> f,
               coarseIncrement |-> c, defaultRate |-> DefaultRate] :
                  lo \in RateFieldValues, hi \in RateFieldValues,
                  f \in FineOptions, c \in CoarseOptions} :
        cfg.minRate < cfg.maxRate}

\* rates inside the bounds of cfg that a session can have left in the store
StartRates(cfg) ==
    {cfg.minRate, cfg.maxRate,
     Max2(cfg.minRate, Min2(cfg.maxRate, DefaultRate))}

\* the content script has initialized on a page whose player is ready; the
\* page runs under configuration cfg and the stored rate r has been applied
LessonPage(cfg, r) ==
    /\ doc = <<1>>
    /\ attr = [e \in Elems |->
                  IF e = 1 THEN [Player EXCEPT !.ready = TRUE] ELSE NoAttr]
    /\ rate = [e \in Elems |-> IF e = 1 THEN r ELSE ElementDefaultRate]
    /\ hostSet = [e \in Elems |-> FALSE]
    /\ attached = [e \in Elems |-> e = 1]
    /\ listeners = [e \in Elems |-> IF e = 1 THEN 1 ELSE 0]
    /\ currentVideo = 1
    /\ config = cfg
    /\ keyListenerAdded = TRUE
    /\ initialized = TRUE
    /\ initPc = [t \in Triggers |-> "done"]
    /\ observers = 1
    /\ timers = 1
    /\ debounce = {}
    /\ reads = {}
    /\ cfgReads = {}

\* --------------------------------------------- the keyboard commands alone
InitKeys ==
    /\ \E cfg \in FieldConfigs : \E r \in StartRates(cfg) :
          /\ LessonPage(cfg, r)
          /\ stRate = r
          /\ stConfig = cfg
    /\ msgs = <<>>
    /\ tabOnHost = TRUE
    /\ popup = ClosedPopup
    /\ last = NoCmd
    /\ budget = MaxCmds

NextKeys ==
    \/ \E dir \in Dirs : KeyFine(dir)
    \/ \E dir \in Dirs : KeyCoarse(dir)
    \/ \E num \in DigitKeys : KeyPreset(num)

SpecKeys == InitKeys /\ [][NextKeys]_vars

\* the last command was a directional key command that found a video
Stepped(wrap) ==
    /\ last.src = "key"
    /\ last.op \in Dirs
    /\ last.wrap = wrap
    /\ last.res # Absent

\* what the last command produced is on the video and in the store
Applied == rate[last.video] = last.res /\ stRate = last.res

\* C1 (saturation law): a directional command run without wrap (the coarse
\* keys) from a rate inside [minRate, maxRate] leaves a rate that is at most
\* maxRate after an increase and at least minRate after a decrease; from 3.0
\* with increment 0.25 and maxRate 3.0 an increase leaves 3.0
SaturationLaw ==
    (Stepped(FALSE) /\ last.min <= last.cur /\ last.cur <= last.max) =>
        /\ Applied
        /\ last.op = "increase" => last.res <= last.max
        /\ last.op = "decrease" => last.res >= last.min
        /\ (last.op = "increase" /\ last.cur = 3000 /\ last.inc = 250
              /\ last.max = 3000) => last.res = 3000

\* a coarse increase from 3.0 under maxRate 3.0 has saturated
SaturationWitness ==
    /\ Stepped(FALSE)
    /\ last.op = "increase"
    /\ last.cur = 3000
    /\ last.inc = 250
    /\ last.max = 3000
    /\ rate[last.video] = 3000

\* C2 (wrap law): a directional command run with wrap (the fine keys) leaves
\* minRate when currentRate + increment exceeds maxRate, maxRate when
\* currentRate - increment falls below minRate, and the stepped rate itself
\* when that lies inside [minRate, maxRate]
WrapLaw ==
    Stepped(TRUE) =>
        LET stepped == IF last.op = "increase" THEN last.cur + last.inc
                       ELSE last.cur - last.inc
        IN  /\ (last.op = "increase" /\ stepped > last.max) =>
                  last.res = last.min
            /\ (last.op = "decrease" /\ stepped < last.min) =>
                  last.res = last.max
            /\ (last.min <= stepped /\ stepped <= last.max) =>
                  last.res = stepped

\* --------------------------- rate commands from the page and from the panel
\* the panel has been opened over a lesson page and has loaded the store
PanelConfigs == {MergeConfig(c) : c \in InitStoredConfigs}

InitOpenPanel ==
    /\ \E cfg \in PanelConfigs :
          LET r == Max2(cfg.minRate, Min2(cfg.maxRate, DefaultRate))
          IN  /\ LessonPage(cfg, r)
              /\ stRate = r
              /\ stConfig = cfg
              /\ popup = [phase |-> "open", cfg |-> cfg, rate |-> r,
                          snap |-> [cfg |-> cfg, rate |-> r], pend |-> <<>>]
    /\ msgs = <<>>
    /\ tabOnHost = TRUE
    /\ last = NoCmd
    /\ budget = MaxCmds

InitRate == InitKeys \/ InitOpenPanel

NextRate ==
    \/ \E dir \in Dirs : KeyFine(dir)
    \/ \E dir \in Dirs : KeyCoarse(dir)
    \/ \E num \in DigitKeys : KeyPreset(num)
    \/ \E dir \in Dirs : PanelStepper(dir)
    \/ \E dir \in Dirs, ctrl \in BOOLEAN : PanelArrowKey(dir, ctrl)
    \/ \E v \in SliderPicks : PanelSliderInput(v)
    \/ \E v \in SliderPicks : PanelSliderChange(v)
    \/ \E v \in PanelPresets : PanelPreset(v)
    \/ PanelAfterSet
    \/ PanelAfterQuery
    \/ OnSetRate

SpecRate == InitRate /\ [][NextRate]_vars

\* C3 (explicit rates are clamped): whichever surface asks for an explicit
\* rate (a Shift+digit preset or a SET_RATE message on the page, the slider,
\* a preset button or a stepper in the panel), the rate applied and stored is
\* clamp(explicitRate, minRate, maxRate) under the configuration that surface
\* holds (to the hundredth, for a stepper's sum)
ExplicitClamped ==
    (last.op = "explicit" /\ last.res # Absent) =>
        last.res = Round2(Max2(last.min, Min2(last.max, last.req)))

\* C5 (rounding): every rate a command writes to a video, to the store or
\* into a message is a whole multiple of 0.01, and successive fine increases
\* from 1.0 under the default configuration add exactly 0.05 each: the tenth
\* leaves exactly 1.5
RoundedRates ==
    /\ stRate # Absent => stRate % 10 = 0
    /\ \A e \in Elems : rate[e] % 10 = 0
    /\ \A i \in 1..Len(msgs) : msgs[i].rate % 10 = 0
    /\ last.res # Absent => last.res % 10 = 0
    /\ last.streak > 0 =>
          last.res = DefaultRate + last.streak * DefaultFineIncrement
    /\ last.streak = 10 => last.res = 1500

\* ten fine increases from 1.0 have been applied
TenthIncrease ==
    /\ last.streak = 10
    /\ rate[last.video] = 1500
    /\ stRate = 1500

\* C13 (a page write is visible in the panel): once a keyboard command on the
\* page has persisted a rate while the panel is open and idle, the panel's
\* current rate, from which its next stepper command is computed, is that rate
PanelSeesPageWrite ==
    (/\ popup.phase = "open"
     /\ popup.pend = <<>>
     /\ last.src = "key"
     /\ last.res # Absent
     /\ stRate = last.res) => popup.rate = stRate

\* ------------------------------------------------ the panel and its settings
\* a first session: nothing is stored yet, the lesson page runs on defaults
InitPanel ==
    /\ LessonPage(DEFAULT_CONFIG, DefaultRate)
    /\ stRate = Absent
    /\ stConfig = EmptyStoredConfig
    /\ msgs = <<>>
    /\ tabOnHost = TRUE
    /\ popup = ClosedPopup
    /\ last = NoHistory
    /\ budget = MaxCmds

NextPanel ==
    \/ PopupOpen
    \/ PopupLoaded
    \/ PopupClose
    \/ \E dir \in Dirs : PanelStepper(dir)
    \/ \E dir \in Dirs, ctrl \in BOOLEAN : PanelArrowKey(dir, ctrl)
    \/ \E v \in SliderPicks : PanelSliderInput(v)
    \/ \E v \in SliderPicks : PanelSliderChange(v)
    \/ \E v \in PanelPresets : PanelPreset(v)
    \/ \E field \in SettingFields, v \in RateFieldValues \cup FineOptions
                                          \cup CoarseOptions :
          PanelSetting(field, v)
    \/ PanelAfterSet
    \/ PanelAfterQuery
    \/ TabSwitch
    \/ OnSetRate
    \/ OnConfigUpdated
    \/ LoadConfigDone
    \/ \E num \in DigitKeys : KeyPreset(num)

SpecPanel == InitPanel /\ [][NextPanel]_vars

\* C4 (persisted rate stays in bounds): whatever keyboard commands, preset
\* keys, SET_RATE messages, panel commits and settings changes have happened,
\* the stored rate lies within [minRate, maxRate] of the stored configuration
StoredRateInBounds ==
    stRate # Absent =>
        LET cfg == MergeConfig(stConfig)
        IN  cfg.minRate <= stRate /\ stRate <= cfg.maxRate

\* C17 (configuration invariant): whatever settings changes the panel has
\* committed, the persisted configuration (over the defaults, for the keys it
\* lacks) has minRate < maxRate, 0 < fineIncrement <= coarseIncrement and
\* minRate <= defaultRate <= maxRate
ConfigInvariant ==
    LET cfg == MergeConfig(stConfig)
    IN  /\ cfg.minRate < cfg.maxRate
        /\ 0 < cfg.fineIncrement
        /\ cfg.fineIncrement <= cfg.coarseIncrement
        /\ cfg.minRate <= cfg.defaultRate
        /\ cfg.defaultRate <= cfg.maxRate

\* ------------------------------------- the synchronizer on a changing page
\* a page load finds what an earlier session left in the store
InitSync ==
    /\ PageStart
    /\ stRate \in InitStoredRates
    /\ stConfig = EmptyStoredConfig
    /\ msgs = <<>>
    /\ tabOnHost = TRUE
    /\ popup = ClosedPopup
    /\ last = NoHistory
    /\ budget = MaxCmds

\* the call of initialize made when the document is ready
FirstTrigger == {"ready"}

\* the lesson pages insert Video.js players
LessonKinds == {Player}

NextSync ==
    \/ \E t \in FirstTrigger : InitializeCall(t)
    \/ \E t \in FirstTrigger : InitializeResume(t)
    \/ \E o \in 1..observers : MutationNotify(o)
    \/ \E o \in debounce : DebounceFire(o)
    \/ PollTick
    \/ \E e \in Elems, type \in AllReadyTypes : ReadinessEvent(e, type)
    \/ \E r \in reads : ApplyStoredRate(r)
    \/ \E e \in Elems, r \in HostRates : HostRateChange(e, r)
    \/ \E e \in Elems, kind \in LessonKinds : PageInsertVideo(e, kind)
    \/ \E e \in Elems : PageMoveVideo(e)
    \/ \E e \in Elems : PageRemoveVideo(e)
    \/ PageReload

SpecSync == InitSync /\ [][NextSync]_vars

\* C6 (the persisted rate is reapplied after a reload): while the store holds
\* a rate, the completion of the store read of any readiness event leaves the
\* element at the stored rate; so an element that carries the listeners, has
\* reached readyState 1 (by a readiness event, or before it was located) and
\* has no store read outstanding plays at the stored rate, unless the host
\* page has changed its rate since
PersistedRateReapplied ==
    /\ [][\A r \in reads :
             (/\ r \notin reads'
              /\ doc' = doc
              /\ InDoc(r.video)
              /\ stRate # Absent) => rate'[r.video] = stRate]_vars
    /\ [](\A e \in Elems :
             (/\ stRate # Absent
              /\ listeners[e] > 0
              /\ attr[e].ready
              /\ \A r \in reads : r.video # e
              /\ ~hostSet[e]) => rate[e] = stRate)

\* a new page context has brought its player to the rate left in the store
ReappliedAfterLoad ==
    \E e \in Elems :
        /\ InDoc(e)
        /\ currentVideo = e
        /\ listeners[e] > 0
        /\ attr[e].ready
        /\ stRate = 1350
        /\ rate[e] = 1350

\* C8 (reconcile is idempotent): whatever observer and polling passes run, in
\* whatever order, no element gets the listener set more than once, and a
\* pass that finds the tracked handle again changes nothing but the
\* observer's pending timeout
ReconcileIdempotent ==
    /\ [](\A e \in Elems : listeners[e] <= 1)
    /\ [][(/\ debounce' # debounce
           /\ debounce' \subseteq debounce
           /\ initPc' = initPc
           /\ currentVideo # Null
           /\ findVideoElement(doc, attr) = currentVideo)
          => UNCHANGED <<doc, attr, rate, hostSet, attached, listeners,
                         currentVideo, config, keyListenerAdded, initialized,
                         initPc, observers, timers, reads, cfgReads, stRate,
                         stConfig, msgs, tabOnHost, popup, last, budget>>]_vars

\* passes have tracked one element after another and come back to the first
TrackedInTurn ==
    \E e \in Elems, f \in Elems :
        /\ e # f
        /\ InDoc(e) /\ InDoc(f)
        /\ currentVideo = e
        /\ doc[1] = e
        /\ listeners[e] = 1
        /\ listeners[f] = 1

PageDigits == {5}

NextPage ==
    \/ \E t \in FirstTrigger : InitializeCall(t)
    \/ \E t \in FirstTrigger : InitializeResume(t)
    \/ \E o \in 1..observers : MutationNotify(o)
    \/ \E o \in debounce : DebounceFire(o)
    \/ PollTick
    \/ \E e \in Elems, type \in AllReadyTypes : ReadinessEvent(e, type)
    \/ \E r \in reads : ApplyStoredRate(r)
    \/ \E e \in Elems, r \in HostRates : HostRateChange(e, r)
    \/ \E e \in Elems, kind \in LessonKinds : PageInsertVideo(e, kind)
    \/ \E e \in Elems : PageMoveVideo(e)
    \/ \E e \in Elems : PageRemoveVideo(e)
    \/ PageReload
    \/ \E num \in PageDigits : KeyPreset(num)

SpecPage == InitSync /\ [][NextPage]_vars

\* C7 (the tracked handle has the listeners): in every reachable state,
\* state.currentVideo is null or an element on which attachVideoListeners has
\* registered the readiness listeners
TrackedHasListeners ==
    currentVideo # Null => listeners[currentVideo] > 0

\* ------------------------------------------------- the locator on any page
\* documents: the elements alive, in any document order
Docs ==
    {d \in UNION {[1..n -> Elems] : n \in 0..MaxElems} :
        \A i \in 1..Len(d), j \in 1..Len(d) : i # j => d[i] # d[j]}

\* what the locator looks at: the three markers and whether the element
\* shows activity
LocateAttrs ==
    {a \in AllAttrs : ~a.progressed /\ ~a.playing}

\* the content script has initialized on an empty document; since then the
\* page has built a document of its own making and no pass has run yet
InitLocate ==
    /\ doc \in Docs
    /\ attr \in [Elems -> LocateAttrs]
    /\ \A e \in Elems : ~InDoc(e) => attr[e] = NoAttr
    /\ rate = [e \in Elems |-> ElementDefaultRate]
    /\ hostSet = [e \in Elems |-> FALSE]
    /\ attached = [e \in Elems |-> FALSE]
    /\ listeners = [e \in Elems |-> 0]
    /\ currentVideo = Null
    /\ config = DEFAULT_CONFIG
    /\ keyListenerAdded = TRUE
    /\ initialized = TRUE
    /\ initPc = [t \in Triggers |-> "done"]
    /\ observers = 1
    /\ timers = 1
    /\ debounce = IF doc = <<>> THEN {} ELSE {1}
    /\ reads = {}
    /\ cfgReads = {}
    /\ stRate = Absent
    /\ stConfig = EmptyStoredConfig
    /\ msgs = <<>>
    /\ tabOnHost = TRUE
    /\ popup = ClosedPopup
    /\ last = NoHistory
    /\ budget = MaxCmds

NextLocate ==
    \/ \E o \in debounce : DebounceFire(o)
    \/ PollTick
    \/ \E r \in reads : ApplyStoredRate(r)

SpecLocate == InitLocate /\ [][NextLocate]_vars

Marked(e) == InDoc(e) /\ attr[e].vjs
InContainer(e) == InDoc(e) /\ attr[e].inPlayer
Preloading(e) == InDoc(e) /\ attr[e].preload

\* C10 (locator priority): the element a pass has located carries the
\* player-library class if any video of the document does; otherwise it lies
\* under the player container if any video does; otherwise it has the preload
\* attribute if any video has; a video showing activity does not outrank a
\* marked one
LocatorPriority ==
    currentVideo # Null =>
        /\ InDoc(currentVideo)
        /\ (\E e \in Elems : Marked(e)) => Marked(currentVideo)
        /\ ((\A e \in Elems : ~Marked(e)) /\ (\E e \in Elems : InContainer(e)))
              => InContainer(currentVideo)
        /\ ((\A e \in Elems : ~Marked(e) /\ ~InContainer(e))
              /\ (\E e \in Elems : Preloading(e)))
              => Preloading(currentVideo)

\* the marked video has been located although only an unmarked one is active
MarkedBeatsActive ==
    /\ currentVideo # Null
    /\ Marked(currentVideo)
    /\ ~Active(attr[currentVideo])
    /\ \E e \in Elems :
          InDoc(e) /\ ~attr[e].vjs /\ Active(attr[e]) /\ doc[1] = e

\* ---------------------------------------- the locator's last two strategies
\* videos that carry all of the player's markers or none of them, in any
\* state of activity
FallbackAttrs == {a \in AllAttrs : a.inPlayer = a.vjs /\ a.preload = a.vjs}

\* as InitLocate, over those videos
InitFallback ==
    /\ doc \in Docs
    /\ attr \in [Elems -> FallbackAttrs]
    /\ \A e \in Elems : ~InDoc(e) => attr[e] = NoAttr
    /\ rate = [e \in Elems |-> ElementDefaultRate]
    /\ hostSet = [e \in Elems |-> FALSE]
    /\ attached = [e \in Elems |-> FALSE]
    /\ listeners = [e \in Elems |-> 0]
    /\ currentVideo = Null
    /\ config = DEFAULT_CONFIG
    /\ keyListenerAdded = TRUE
    /\ initialized = TRUE
    /\ initPc = [t \in Triggers |-> "done"]
    /\ observers = 1
    /\ timers = 1
    /\ debounce = IF doc = <<>> THEN {} ELSE {1}
    /\ reads = {}
    /\ cfgReads = {}
    /\ stRate = Absent
    /\ stConfig = EmptyStoredConfig
    /\ msgs = <<>>
    /\ tabOnHost = TRUE
    /\ popup = ClosedPopup
    /\ last = NoHistory
    /\ budget = MaxCmds

SpecFallback == InitFallback /\ [][NextLocate]_vars

Unmarked ==
    \A e \in Elems : ~Marked(e) /\ ~InContainer(e) /\ ~Preloading(e)

\* C11 (locator fallback): the locator returns none exactly when the document
\* has no video, so a pass leaves no handle tracked only on an empty document;
\* when no marker rule matches and the document has several videos, the
\* located one is the first in document order that shows activity (ready
\* state, elapsed time or playing), and the first video when none does
LocatorFallback ==
    /\ findVideoElement(doc, attr) = Null <=> doc = <<>>
    /\ debounce = {} => (currentVideo = Null <=> doc = <<>>)
    /\ (currentVideo # Null /\ Unmarked /\ Len(doc) > 1) =>
          \E i \in 1..Len(doc) :
              /\ doc[i] = currentVideo
              /\ IF \E j \in 1..Len(doc) : Active(attr[doc[j]])
                 THEN /\ Active(attr[doc[i]])
                      /\ \A j \in 1..(i - 1) : ~Active(attr[doc[j]])
                 ELSE i = 1

\* a pass has passed over an idle first video and located a later one whose
\* only sign of activity is that it is playing
FallbackByPlayback ==
    /\ Unmarked
    /\ Len(doc) > 1
    /\ currentVideo = doc[2]
    /\ ~Active(attr[doc[1]])
    /\ attr[doc[2]].playing
    /\ ~attr[doc[2]].ready
    /\ ~attr[doc[2]].progressed

\* ------------------------------------- panel commits and their forwarding
\* the panel is open over a lesson page; the user commits rates, switches
\* tabs and in the end dismisses the panel
NextForward ==
    \/ \E dir \in Dirs : PanelStepper(dir)
    \/ \E dir \in Dirs, ctrl \in BOOLEAN : PanelArrowKey(dir, ctrl)
    \/ \E v \in SliderPicks : PanelSliderChange(v)
    \/ \E v \in PanelPresets : PanelPreset(v)
    \/ PanelAfterSet
    \/ PanelAfterQuery
    \/ TabSwitch
    \/ OnSetRate
    \/ PopupClose

SpecForward == InitOpenPanel /\ [][NextForward]_vars

PanelSources == {"stepper", "panelkey", "slider", "preset"}

\* C12 (commit, then forward): a panel commit writes the clamped and rounded
\* rate to the store and sends nothing yet; when its tab query returns, a
\* SET_RATE message with that same rate is sent if the active tab is on the
\* host site and nothing is sent if it is not, the store staying as written;
\* no message is sent in any other way
CommitThenForward ==
    [][/\ (Len(popup'.pend) > Len(popup.pend)) =>
             LET c == popup'.pend[Len(popup'.pend)]
             IN  c.kind = "rate" =>
                    /\ last'.src \in PanelSources
                    /\ c.rate = Round2(Max2(popup.cfg.minRate,
                                            Min2(popup.cfg.maxRate, last'.req)))
                    /\ stRate' = c.rate
                    /\ msgs' = msgs
       /\ (popup'.phase = "open" /\ Len(popup'.pend) < Len(popup.pend)) =>
             \E i \in 1..Len(popup.pend) :
                 /\ popup.pend[i].pc = "query"
                 /\ popup'.pend = DropAt(popup.pend, i)
                 /\ stRate' = stRate
                 /\ popup.pend[i].kind = "rate" =>
                       msgs' = IF tabOnHost
                               THEN Append(msgs, [type |-> "SET_RATE",
                                                  rate |-> popup.pend[i].rate])
                               ELSE msgs
       /\ Len(msgs') > Len(msgs) =>
             (tabOnHost /\ Len(popup'.pend) < Len(popup.pend))]_vars

\* a commit made while another tab was active has run to its end: the store
\* holds its rate, nothing was sent and the video plays at another rate
ForwardSkipped ==
    /\ popup.phase = "open"
    /\ popup.pend = <<>>
    /\ ~tabOnHost
    /\ last.src \in PanelSources
    /\ stRate = last.res
    /\ msgs = <<>>
    /\ rate[1] # stRate

\* --------------------------------------- the configuration the page runs on
\* a page load with a stored configuration that may lack keys; the user has
\* the panel open and changes settings while using the directional keys
InitConfig ==
    /\ PageStart
    /\ stRate = Absent
    /\ stConfig \in InitStoredConfigs
    /\ msgs = <<>>
    /\ tabOnHost = TRUE
    /\ popup = [phase |-> "open", cfg |-> MergeConfig(stConfig),
                rate |-> PopupDefaultRate,
                snap |-> [cfg |-> stConfig, rate |-> Absent], pend |-> <<>>]
    /\ last = NoCmd
    /\ budget = MaxCmds

NextConfig ==
    \/ \E t \in FirstTrigger : InitializeCall(t)
    \/ \E t \in FirstTrigger : InitializeResume(t)
    \/ \E o \in debounce : DebounceFire(o)
    \/ \E e \in Elems, kind \in LessonKinds : PageInsertVideo(e, kind)
    \/ \E field \in SettingFields, v \in RateFieldValues \cup FineOptions
                                          \cup CoarseOptions :
          PanelSetting(field, v)
    \/ PanelAfterSet
    \/ PanelAfterQuery
    \/ OnConfigUpdated
    \/ LoadConfigDone
    \/ \E dir \in Dirs : KeyFine(dir)
    \/ \E dir \in Dirs : KeyCoarse(dir)

SpecConfig == InitConfig /\ [][NextConfig]_vars

\* C14 (merge semantics): a loadConfig reads the stored configuration, and
\* when it completes every key of state.config is the value read where the
\* stored configuration has that key and the hardcoded default where it has
\* not; a directional command takes its increment and its bounds from
\* state.config and leaves on the video what they give
ConfigMerged ==
    [][/\ \A r \in cfgReads' : r \notin cfgReads => r.val = stConfig
       /\ \A r \in cfgReads :
             r \notin cfgReads' =>
                \A k \in Keys :
                    config'[k] = IF r.val[k] # Absent THEN r.val[k]
                                 ELSE DEFAULT_CONFIG[k]
       /\ (last' # last /\ last'.op \in Dirs /\ last'.res # Absent) =>
             /\ last'.inc = IF last'.wrap THEN config.fineIncrement
                            ELSE config.coarseIncrement
             /\ last'.min = config.minRate
             /\ last'.max = config.maxRate
             /\ last'.res = StepRate(last'.cur, last'.op, last'.inc,
                                     [minRate |-> last'.min,
                                      maxRate |-> last'.max], last'.wrap)
             /\ rate'[last'.video] = last'.res]_vars

\* the page was loaded over a stored configuration that has maxRate 2.0 and
\* no other key, and a coarse increase has been made with the default
\* increment under that maximum
PartialConfigInUse ==
    /\ stConfig = [EmptyStoredConfig EXCEPT !["maxRate"] = 2000]
    /\ config = [DEFAULT_CONFIG EXCEPT !["maxRate"] = 2000]
    /\ last.op = "increase"
    /\ ~last.wrap
    /\ last.inc = DefaultCoarseIncrement
    /\ last.max = 2000
    /\ last.res = 1250
    /\ rate[last.video] = 1250

\* ------------------------------- rate commands on a page that is changing
\* a page load with nothing stored; the panel is open over the tab, and the
\* user gives rate commands on the page and in the panel while the page builds
\* and rebuilds its player
InitCommands ==
    /\ PageStart
    /\ stRate = Absent
    /\ stConfig = EmptyStoredConfig
    /\ msgs = <<>>
    /\ tabOnHost = TRUE
    /\ popup = [phase |-> "open", cfg |-> DEFAULT_CONFIG,
                rate |-> PopupDefaultRate,
                snap |-> [cfg |-> EmptyStoredConfig, rate |-> Absent],
                pend |-> <<>>]
    /\ last = NoCmd
    /\ budget = MaxCmds

NextCommands ==
    \/ \E t \in FirstTrigger : InitializeCall(t)
    \/ \E t \in FirstTrigger : InitializeResume(t)
    \/ \E o \in debounce : DebounceFire(o)
    \/ PollTick
    \/ \E e \in Elems, kind \in LessonKinds : PageInsertVideo(e, kind)
    \/ \E e \in Elems : PageRemoveVideo(e)
    \/ \E dir \in Dirs : KeyFine(dir)
    \/ \E dir \in Dirs : KeyCoarse(dir)
    \/ \E num \in PageDigits : KeyPreset(num)
    \/ \E v \in PanelPresets : PanelPreset(v)
    \/ PanelAfterSet
    \/ PanelAfterQuery
    \/ OnSetRate

SpecCommands == InitCommands /\ [][NextCommands]_vars

\* the step answers the SET_RATE message at the head of the queue
Answered ==
    /\ msgs # <<>>
    /\ Head(msgs).type = "SET_RATE"
    /\ msgs' = Tail(msgs)

\* C15 (SET_RATE is applied and acknowledged): when the content script
\* answers SET_RATE {rate} with success, the document has a live video and
\* that video's playback rate and the stored rate are the requested rate
AckedRateApplied ==
    [][Answered =>
          LET live == findVideoElement(doc', attr')
          IN  /\ live # Null
              /\ rate'[live] = Head(msgs).rate
              /\ stRate' = Head(msgs).rate]_vars

\* the step is a rate command on the page: a key command, or the handling of
\* a SET_RATE message
PageCommand ==
    \/ last' # last /\ last'.src \in {"key", "msg"}
    \/ Answered

\* C16 (NoVideoFound is recovered locally): a rate command on the page that
\* finds no handle tracked and no video in the document is skipped: the
\* stored rate, the tracked handle, the configuration and every element's rate
\* stay as they are, and the page context stays as it was, its key listener
\* in place for the commands that follow
NoVideoSkipped ==
    [][(/\ PageCommand
        /\ currentVideo = Null
        /\ findVideoElement(doc, attr) = Null) =>
          /\ stRate' = stRate
          /\ currentVideo' = Null
          /\ config' = config
          /\ rate' = rate
          /\ keyListenerAdded' = keyListenerAdded
          /\ initialized' = initialized]_vars

\* a key command has been skipped on a document without a video, and the key
\* listener is still there
KeySkipped ==
    /\ doc = <<>>
    /\ currentVideo = Null
    /\ keyListenerAdded
    /\ last.src = "key"
    /\ last.res = Absent
    /\ stRate = Absent

\* C19 (commands act on the live element): a rate command on the page that
\* succeeds sets the playback rate of the element the locator returns when
\* the command runs, also after the page has replaced or removed the tracked
\* element and before a pass has run
LiveElementSet ==
    [][(/\ last' # last
        /\ last'.src \in {"key", "msg"}
        /\ last'.res # Absent) =>
          LET live == findVideoElement(doc, attr)
          IN  /\ live # Null
              /\ last'.video = live
              /\ rate'[live] = last'.res]_vars

\* --------------------------------------------- the polling timer as fallback
\* page loads, passes and preset keys on a page that builds and rebuilds its
\* player; the 2 s interval keeps firing, the debounced observer pass may
\* never come
NextPoll ==
    \/ \E t \in FirstTrigger : InitializeCall(t)
    \/ \E t \in FirstTrigger : InitializeResume(t)
    \/ \E o \in debounce : DebounceFire(o)
    \/ PollTick
    \/ \E e \in Elems, kind \in LessonKinds : PageInsertVideo(e, kind)
    \/ \E e \in Elems : PageMoveVideo(e)
    \/ \E e \in Elems : PageRemoveVideo(e)
    \/ \E num \in PageDigits : KeyPreset(num)

SpecPoll == InitSync /\ [][NextPoll]_vars /\ WF_vars(PollTick)

\* C18 (handle replacement is eventually detected): once the interval is
\* installed and the locator returns an element of the document, then, with
\* the interval firing fairly and for as long as the page leaves its document
\* as it is, that element becomes the tracked handle and carries the listeners
ReplacementDetected ==
    \A d \in Docs : \A e \in Elems :
        (timers > 0 /\ doc = d /\ findVideoElement(doc, attr) = e)
            ~> \/ currentVideo = e /\ listeners[e] > 0
               \/ doc # d

\* ------------------------------------ rate commands against readiness events
\* a lesson page with the panel open over it: the player fires readiness
\* events while the user gives rate commands on the page and in the panel;
\* the host page leaves the rate alone
NextRace ==
    \/ \E e \in Elems, type \in AllReadyTypes : ReadinessEvent(e, type)
    \/ \E r \in reads : ApplyStoredRate(r)
    \/ \E dir \in Dirs : KeyFine(dir)
    \/ \E dir \in Dirs : KeyCoarse(dir)
    \/ \E num \in PageDigits : KeyPreset(num)
    \/ \E v \in PanelPresets : PanelPreset(v)
    \/ PanelAfterSet
    \/ PanelAfterQuery
    \/ OnSetRate

SpecRace == InitOpenPanel /\ [][NextRace]_vars

\* nothing is under way: no store read, no message, no panel continuation
Quiescent ==
    /\ reads = {}
    /\ cfgReads = {}
    /\ msgs = <<>>
    /\ popup.pend = <<>>

\* C20 (a command is not undone by a reapply in flight): when nothing is
\* under way and the rate in the store is the one the last command on the
\* page has set on the live element, which carries the listeners, that element
\* still plays at the stored rate
CommandNotUndone ==
    (/\ Quiescent
     /\ last.src \in {"key", "msg"}
     /\ last.res # Absent
     /\ stRate = last.res
     /\ last.video = findVideoElement(doc, attr)
     /\ listeners[last.video] > 0) => rate[last.video] = stRate

\* ------------------------------------------- the three calls of initialize
\* a page load with all three triggers of the start section: the call made
\* when the document is ready and the retries after 1 s and 3 s, each
\* loadConfig completing whenever the store answers
NextInit ==
    \/ \E t \in Triggers : InitializeCall(t)
    \/ \E t \in Triggers : InitializeResume(t)
    \/ \E o \in 1..observers : MutationNotify(o)
    \/ \E o \in debounce : DebounceFire(o)
    \/ PollTick
    \/ \E e \in Elems, kind \in LessonKinds : PageInsertVideo(e, kind)
    \/ \E e \in Elems : PageRemoveVideo(e)
    \/ PageReload

SpecInit == InitSync /\ [][NextInit]_vars

\* C21 (initialization takes effect once): whichever of the three triggers
\* call initialize and whenever their loadConfig completes, a page context
\* never has more than one mutation observer nor more than one polling timer
InitializedOnce ==
    /\ observers <= 1
    /\ timers <= 1

\* ------------------------------------------------ the debounced observer pass
\* the same page load, with every armed 100 ms timeout firing in the end
SpecDebounce ==
    /\ InitSync
    /\ [][NextInit]_vars
    /\ \A o \in 1..Cardinality(Triggers) : WF_vars(DebounceFire(o))

\* C22 (mutation debouncing): at most one debounce timeout is pending at any
\* time; mutations reported while a timeout is pending run no pass of their
\* own and leave that timeout pending, so the burst gets the one pass of that
\* timeout; and every reported mutation is followed by a pass, the pending
\* timeout firing in the end
Debounced ==
    /\ [](Cardinality(debounce) <= 1)
    /\ [][\A o \in debounce :
             (doc' # doc /\ observers' = observers) =>
                 (o \in debounce' /\ currentVideo' = currentVideo)]_vars
    /\ \A o \in 1..Cardinality(Triggers) :
           (o \in debounce) ~> (o \notin debounce)

====
